---- MODULE Spec2Model ----
(***************************************************************************)
(* Scenario identity and index reconciliation of the telemetry logger:    *)
(*   cli/interactive_capture.py   interactive capture / metadata-only run *)
(*   scripts/process_capture.py   scripted capture run                    *)
(*   cli/backfill_index_links.py  link backfill                           *)
(* File names, identifiers and CSV cells are strings and are computed the *)
(* way the Python code computes them (formatting, regex match, int()).    *)
(* The index file is a sequence of CSV lines, each a sequence of cells.   *)
(***************************************************************************)
EXTENDS Integers, Sequences, FiniteSets, TLC

VARIABLES
    logs,      \* logs/<date>/ : [exists, files], files maps a name to its lines
    capture,   \* capture/ : [main, alt], each [exists, content]
    index,     \* index/master_log_index.csv : [exists, lines]
    repo,      \* GITHUB_REPO of cli/config.py
    runs,      \* number of tool runs so far (bounds the exploration)
    last,      \* history: the last run, its arguments, outcome and exit status
    before,    \* history: the index file as it was before the last run
    keys,      \* history: archived filenames handed to an index update, while once
    once       \* history: only index updates ran so far, each filename once

vars == <<logs, capture, index, repo, runs, last, before, keys, once>>

----------------------------------------------------------------------------
(* Bounds of the exploration *)

MaxRuns == 3

MaxRows == 2

(* Program constants *)

PadWidth == 3

GITHUB_REPO == "C-broderick-225/svmc72200-ukc1-telemetry-logs"

PROJECT_ROOT == "/repo"

----------------------------------------------------------------------------
(* String helpers: Python str methods on TLA+ strings *)

Digit == <<"0", "1", "2", "3", "4", "5", "6", "7", "8", "9">>

IsDigit(c) == \E i \in 1..10 : Digit[i] = c

DigitVal(c) == (CHOOSE i \in 1..10 : Digit[i] = c) - 1

AllDigits(s) == \A i \in 1..Len(s) : IsDigit(SubSeq(s, i, i))

RECURSIVE Str(_)
Str(n) == IF n < 10 THEN Digit[n + 1] ELSE Str(n \div 10) \o Digit[(n % 10) + 1]

RECURSIVE ZeroPad(_, _)
ZeroPad(s, width) == IF Len(s) >= width THEN s ELSE ZeroPad("0" \o s, width)

RECURSIVE IntOf(_)
IntOf(s) == IF Len(s) = 0 THEN 0
            ELSE 10 * IntOf(SubSeq(s, 1, Len(s) - 1)) + DigitVal(SubSeq(s, Len(s), Len(s)))

StartsWith(s, p) == Len(s) >= Len(p) /\ SubSeq(s, 1, Len(p)) = p

EndsWith(s, p) == Len(s) >= Len(p) /\ SubSeq(s, Len(s) - Len(p) + 1, Len(s)) = p

RECURSIVE Replace(_, _, _)
Replace(s, old, new) ==
    IF Len(s) < Len(old) THEN s
    ELSE IF StartsWith(s, old)
         THEN new \o Replace(SubSeq(s, Len(old) + 1, Len(s)), old, new)
         ELSE SubSeq(s, 1, 1) \o Replace(SubSeq(s, 2, Len(s)), old, new)

RECURSIVE LastIndexOf(_, _)
LastIndexOf(s, c) ==
    IF Len(s) = 0 THEN 0
    ELSE IF SubSeq(s, Len(s), Len(s)) = c THEN Len(s)
         ELSE LastIndexOf(SubSeq(s, 1, Len(s) - 1), c)

RECURSIVE Strip(_)
Strip(s) ==
    IF Len(s) = 0 THEN s
    ELSE IF SubSeq(s, 1, 1) = " " THEN Strip(SubSeq(s, 2, Len(s)))
         ELSE IF SubSeq(s, Len(s), Len(s)) = " " THEN Strip(SubSeq(s, 1, Len(s) - 1))
              ELSE s

\* Path.stem: the name without its last suffix
Stem(name) ==
    LET i == LastIndexOf(name, ".")
    IN  IF i > 1 THEN SubSeq(name, 1, i - 1) ELSE name

\* sid.rsplit("_", 1)[-1]
LastSegment(sid) == SubSeq(sid, LastIndexOf(sid, "_") + 1, Len(sid))

----------------------------------------------------------------------------
(* Scenario identity: generate_scenario_id, list_metadata_only_scenarios,  *)
(* choose_or_generate_scenario_id                                          *)

date_token(for_date) == Replace(for_date, "-", "_")

scenario_prefix(for_date) == "SCN_" \o date_token(for_date) \o "_"

log_name(scenario_id) == scenario_id \o ".log"

metadata_name(scenario_id) == scenario_id \o ".metadata.json"

\* pattern.match(name) of ^<prefix>(\d{3})\.log$, prefix being SCN_<date_token>_
pattern_match(prefix, name) ==
    /\ Len(name) = Len(prefix) + PadWidth + Len(".log")
    /\ StartsWith(name, prefix)
    /\ AllDigits(SubSeq(name, Len(prefix) + 1, Len(prefix) + PadWidth))
    /\ EndsWith(name, ".log")

\* m.group(1)
pattern_group(prefix, name) == SubSeq(name, Len(prefix) + 1, Len(prefix) + PadWidth)

\* int(m.group(1)) of the names of logs_dir.glob("*.log") that match
matched_indices(prefix, logs_dir) ==
    { IntOf(pattern_group(prefix, n)) :
        n \in { m \in DOMAIN logs_dir.files : EndsWith(m, ".log") /\ pattern_match(prefix, m) } }

scanned_indices(for_date, logs_dir) == matched_indices(scenario_prefix(for_date), logs_dir)

\* scan_next_idx with "idx > next_idx" for the comparison
RECURSIVE scan_next_idx_strict(_, _)
scan_next_idx_strict(next_idx, idxs) ==
    IF idxs = {} THEN next_idx
    ELSE LET idx == CHOOSE i \in idxs : TRUE
         IN  scan_next_idx_strict(IF idx > next_idx THEN idx + 1 ELSE next_idx, idxs \ {idx})

\* the loop over the matches: next_idx ends as 1 + the largest matched idx,
\* whatever the glob order, because idx >= next_idx raises it
RECURSIVE scan_next_idx(_, _)
scan_next_idx(next_idx, idxs) ==
    IF idxs = {} THEN next_idx
    ELSE LET idx == CHOOSE i \in idxs : TRUE
         IN  scan_next_idx(IF idx >= next_idx THEN idx + 1 ELSE next_idx, idxs \ {idx})

generate_scenario_id(for_date, logs_dir) ==
    LET next_idx == IF logs_dir.exists
                    THEN scan_next_idx(1, scanned_indices(for_date, logs_dir))
                    ELSE 1
    IN  scenario_prefix(for_date) \o ZeroPad(Str(next_idx), PadWidth)

\* suffix_num of list_metadata_only_scenarios: int() of the last segment, 0 on failure
suffix_num(sid) ==
    LET seg == LastSegment(sid)
    IN  IF Len(seg) > 0 /\ AllDigits(seg) THEN IntOf(seg) ELSE 0

\* scenario_id = metadata_path.stem.replace(".metadata", "")
scenario_of(metadata_file) == Replace(Stem(metadata_file), ".metadata", "")

\* whether the loop appends scenario_id, the candidate of one metadata file
is_candidate(scenario_id, prefix, logs_dir) ==
    /\ log_name(scenario_id) \notin DOMAIN logs_dir.files
    /\ StartsWith(scenario_id, prefix)

\* the files of logs_dir.glob("*.metadata.json") that append a candidate
metadata_only_files(logs_dir, for_date) ==
    IF ~logs_dir.exists THEN {}
    ELSE { m \in { n \in DOMAIN logs_dir.files : EndsWith(n, ".metadata.json") } :
             is_candidate(scenario_of(m), scenario_prefix(for_date), logs_dir) }

\* the candidate appended for metadata file m, with its sort key
candidate(m) == [file |-> m, sid |-> scenario_of(m), key |-> suffix_num(scenario_of(m))]

\* candidates.sort(key=suffix_num) over the n candidates c: ascending sort
\* key; candidates with equal keys stay in glob order, which the file
\* system chooses
sorted_candidates(c, n) ==
    { [i \in 1..n |-> s[i].sid] :
        s \in { t \in [1..n -> c] :
                  /\ \A i, j \in 1..n : i # j => t[i] # t[j]
                  /\ \A i, j \in 1..n : i < j => t[i].key <= t[j].key } }

\* the lists list_metadata_only_scenarios may return: one candidate per file
candidate_lists(c) == sorted_candidates(c, Cardinality(c))

list_metadata_only_scenarios(logs_dir, for_date) ==
    candidate_lists({ candidate(m) : m \in metadata_only_files(logs_dir, for_date) })

\* choose_or_generate_scenario_id; answer is the operator's reply:
\* 0 declines reuse / creates a new one, k >= 1 takes existing[k]
choose_or_generate_scenario_id(for_date, logs_dir, existing, answer) ==
    IF Len(existing) >= 1 /\ answer >= 1 /\ answer <= Len(existing)
    THEN existing[answer]
    ELSE generate_scenario_id(for_date, logs_dir)

----------------------------------------------------------------------------
(* Files: a file's content is the sequence of its text lines *)

RECURSIVE file_size(_)
file_size(content) ==
    IF Len(content) = 0 THEN 0
    ELSE Len(content[1]) + 1 + file_size(Tail(content))

\* sum(1 for line in f if line.strip())
record_count_of(content) ==
    Cardinality({ i \in 1..Len(content) : Len(Strip(content[i])) > 0 })

log_exists(logs_dir, scenario_id) ==
    logs_dir.exists /\ log_name(scenario_id) \in DOMAIN logs_dir.files

\* destination.parent.mkdir(parents=True, exist_ok=True), then the file is
\* written or moved over whatever NAME held
put_file(logs_dir, name, content) ==
    [exists |-> TRUE,
     files  |-> [n \in (DOMAIN logs_dir.files) \cup {name} |->
                   IF n = name THEN content ELSE logs_dir.files[n]]]

make_dir(logs_dir) == [logs_dir EXCEPT !.exists = TRUE]

\* write_metadata: the fields of the JSON object that the run determines
metadata_content(scenario_id, date_str, time_str, test_type) ==
    <<scenario_id, date_str \o "T" \o time_str \o ":00Z", test_type>>

----------------------------------------------------------------------------
(* CSV: csv.DictReader and csv.DictWriter on a file of lines of cells *)

fieldnames ==
    <<"date", "filename", "file_size", "record_count", "metadata_file",
      "created_at", "test_description", "log_link", "metadata_link">>

\* Python's None as a dict value; no cell of an explored file has this text
None == "<None>"

Range(seq) == { seq[i] : i \in 1..Len(seq) }

\* one row of csv.DictReader: dict(zip(header, line)), missing cells are None,
\* surplus cells go under the restkey None (rest)
dict_row(header, line) ==
    [cells |-> [k \in Range(header) |->
                  LET js == { j \in 1..Len(header) : header[j] = k /\ j <= Len(line) }
                  IN  IF js = {} THEN None
                      ELSE line[CHOOSE j \in js : \A h \in js : h <= j]],
     rest  |-> Len(line) > Len(header)]

\* the rows csv.DictReader yields: the first line is the header, lines
\* without cells are skipped
dict_reader(lines) ==
    LET body == SelectSeq(Tail(lines), LAMBDA l : Len(l) > 0)
    IN  [i \in 1..Len(body) |-> dict_row(lines[1], body[i])]

\* r.get(key)
row_get(r, key) == IF key \in DOMAIN r.cells THEN r.cells[key] ELSE None

\* DictWriter._dict_to_list raises ValueError for keys outside fieldnames
wrong_fields(names, r) == r.rest \/ ~(DOMAIN r.cells \subseteq Range(names))

written_line(names, r) ==
    [j \in 1..Len(names) |->
       IF names[j] \in DOMAIN r.cells /\ r.cells[names[j]] # None
       THEN r.cells[names[j]] ELSE ""]

\* open(index_path, "w"); writeheader(); writerows(rows): the file is
\* truncated, the header written, then the rows up to the first one that
\* raises
dict_writer(names, rows) ==
    LET bad  == { i \in 1..Len(rows) : wrong_fields(names, rows[i]) }
        stop == IF bad = {} THEN Len(rows) + 1
                ELSE CHOOSE i \in bad : \A h \in bad : i <= h
    IN  [index  |-> [exists |-> TRUE,
                     lines  |-> <<names>> \o [i \in 1..(stop - 1) |-> written_line(names, rows[i])]],
         raised |-> bad # {}]

----------------------------------------------------------------------------
(* cli/interactive_capture.py: update_master_index *)

github_link(repo_path, posix_path) ==
    IF Len(repo_path) > 0
    THEN "https://github.com/" \o repo_path \o "/blob/main/" \o posix_path
    ELSE ""

\* log_path.as_posix() and metadata_path.as_posix() under project_root
archive_path(date_str, name) == PROJECT_ROOT \o "/logs/" \o date_str \o "/" \o name

index_row(date_str, scenario_id, test_type, logs_dir, repo_path, created_at_value) ==
    LET present == log_exists(logs_dir, scenario_id)
        content == IF present THEN logs_dir.files[log_name(scenario_id)] ELSE <<>>
    IN  [cells |->
           [k \in Range(fieldnames) |->
              CASE k = "date"             -> date_str
                [] k = "filename"         -> log_name(scenario_id)
                [] k = "file_size"        -> Str(IF present THEN file_size(content) ELSE 0)
                [] k = "record_count"     -> Str(IF present THEN record_count_of(content) ELSE 0)
                [] k = "metadata_file"    -> metadata_name(scenario_id)
                [] k = "created_at"       -> created_at_value
                [] k = "test_description" -> test_type
                [] k = "log_link"         ->
                       github_link(repo_path, archive_path(date_str, log_name(scenario_id)))
                [] k = "metadata_link"    ->
                       github_link(repo_path, archive_path(date_str, metadata_name(scenario_id)))],
         rest |-> FALSE]

loaded_rows(index_file) ==
    IF index_file.exists /\ Len(index_file.lines) > 0
    THEN dict_reader(index_file.lines)
    ELSE <<>>

\* existing_idx: the first row whose filename equals FILENAME, 0 for None
existing_idx(rows, filename) ==
    LET hits == { i \in 1..Len(rows) : row_get(rows[i], "filename") = filename }
    IN  IF hits = {} THEN 0 ELSE CHOOSE i \in hits : \A h \in hits : i <= h

created_at_now(date_str, time_str) == date_str \o "T" \o time_str \o ":00Z"

\* preserved_created_at that always takes the run's own timestamp
preserved_created_at_fresh(rows, i, date_str, time_str) == created_at_now(date_str, time_str)

\* if existing.get("created_at"): created_at_value = existing["created_at"]
preserved_created_at(rows, i, date_str, time_str) ==
    IF i # 0 /\ row_get(rows[i], "created_at") # None /\ Len(row_get(rows[i], "created_at")) > 0
    THEN row_get(rows[i], "created_at")
    ELSE created_at_now(date_str, time_str)

\* the row is updated in place at existing_idx i, or appended when i is 0,
\* and all rows are written back with the header
upsert_at(rows, i, date_str, time_str, scenario_id, test_type, logs_dir, repo_path) ==
    dict_writer(fieldnames,
        IF i # 0
        THEN [rows EXCEPT ![i] = index_row(date_str, scenario_id, test_type, logs_dir, repo_path,
                                           preserved_created_at(rows, i, date_str, time_str))]
        ELSE Append(rows, index_row(date_str, scenario_id, test_type, logs_dir, repo_path,
                                    preserved_created_at(rows, i, date_str, time_str))))

upsert_rows(rows, date_str, time_str, scenario_id, test_type, logs_dir, repo_path) ==
    upsert_at(rows, existing_idx(rows, log_name(scenario_id)),
              date_str, time_str, scenario_id, test_type, logs_dir, repo_path)

update_master_index(index_file, date_str, time_str, scenario_id, test_type, logs_dir, repo_path) ==
    upsert_rows(loaded_rows(index_file),
                date_str, time_str, scenario_id, test_type, logs_dir, repo_path)

----------------------------------------------------------------------------
(* scripts/process_capture.py: update_master_index *)

SCRIPT_REPO == "C-broderick-225/svmc72200-ukc1-telemetry-logs"

\* the cells of new_entry; the arguments hold no comma, quote or line break
new_entry(scenario_id, date, time, test_type) ==
    <<date, scenario_id \o ".log", "0", "0", scenario_id \o ".metadata.json",
      date \o "T" \o time \o ":00Z", test_type,
      "https://github.com/" \o SCRIPT_REPO \o "/blob/main/" \o "logs/" \o date \o "/" \o scenario_id \o ".log",
      "https://github.com/" \o SCRIPT_REPO \o "/blob/main/" \o "logs/" \o date \o "/" \o scenario_id \o ".metadata.json">>

\* open(index_file, 'r') raises FileNotFoundError when the file is absent;
\* otherwise the entry is appended after the lines read
script_update_master_index(index_file, scenario_id, date, time, test_type) ==
    IF ~index_file.exists
    THEN [index |-> index_file, raised |-> TRUE]
    ELSE [index  |-> [exists |-> TRUE,
                      lines  |-> Append(index_file.lines, new_entry(scenario_id, date, time, test_type))],
          raised |-> FALSE]

----------------------------------------------------------------------------
(* cli/backfill_index_links.py: main *)

required_columns == {"date", "filename", "metadata_file", "log_link", "metadata_link"}

backfill_row(r, repo_path) ==
    LET date_str      == Strip(row_get(r, "date"))
        filename      == Strip(row_get(r, "filename"))
        metadata_file == Strip(row_get(r, "metadata_file"))
    IN  [r EXCEPT
           !.cells = [k \in DOMAIN r.cells |->
              IF k = "log_link"
              THEN "https://github.com/" \o repo_path \o "/blob/main/" \o "logs/" \o date_str \o "/" \o filename
              ELSE IF k = "metadata_link"
              THEN "https://github.com/" \o repo_path \o "/blob/main/" \o "logs/" \o date_str \o "/" \o metadata_file
              ELSE r.cells[k]]]

\* returns the index file and the exit status; .strip() on a None cell raises
backfill_main(index_file, repo_path) ==
    IF Len(repo_path) = 0 THEN [index |-> index_file, status |-> 1, raised |-> FALSE]
    ELSE IF ~index_file.exists \/ Len(index_file.lines) = 0
    THEN [index |-> index_file, status |-> 0, raised |-> FALSE]
    ELSE LET names == index_file.lines[1]
             rows  == dict_reader(index_file.lines)
         IN  IF ~(required_columns \subseteq Range(names))
             THEN [index |-> index_file, status |-> 1, raised |-> FALSE]
             ELSE IF \E i \in 1..Len(rows) :
                       \E k \in {"date", "filename", "metadata_file"} : row_get(rows[i], k) = None
             THEN [index |-> index_file, status |-> 1, raised |-> TRUE]
             ELSE LET w == dict_writer(names, [i \in 1..Len(rows) |-> backfill_row(rows[i], repo_path)])
                  IN  [index |-> w.index, status |-> IF w.raised THEN 1 ELSE 0, raised |-> w.raised]

----------------------------------------------------------------------------
(* Inputs of the runs *)

Dates == {"2025-08-12", "2025-08-13"}

\* collect_inputs: date, time and test type of an interactive run
Inputs ==
    { <<"2025-08-12", "09:00", "throttle">>,
      <<"2025-08-12", "10:00", "regen">>,
      <<"2025-08-13", "09:00", "throttle">> }

\* sys.argv of the scripted run: scenario_id, date, time, test_type
ScriptArgs ==
    { <<"SCN_2025_08_12_001", "2025-08-12", "10:00", "regen">>,
      <<"SCN_2025_08_12_999", "2025-08-12", "09:00", "throttle">>,
      <<"SCN_2025_08_12_001", "2025-08-13", "09:00", "throttle">> }

\* what the operator drops into capture/
CaptureContents == { <<"v=72.1", " ", "v=71.9">> }

NoFile == [exists |-> FALSE, content |-> <<>>]

NoDir == [exists |-> FALSE, files |-> <<>>]

NoRun ==
    [op |-> "none", status |-> "ok", exit |-> 0, date |-> "", time |-> "", id |-> "",
     test |-> "", existing |-> <<>>, answer |-> 0, dir |-> NoDir]

----------------------------------------------------------------------------
(* State after checkout: no archive yet, no capture, index absent or empty *)

Init ==
    /\ logs = [d \in Dates |-> NoDir]
    /\ capture = [main |-> NoFile, alt |-> NoFile]
    /\ index \in { [exists |-> FALSE, lines |-> <<>>], [exists |-> TRUE, lines |-> <<>>] }
    /\ repo = GITHUB_REPO
    /\ runs = 0
    /\ last = NoRun
    /\ before = index
    /\ keys = {}
    /\ once = TRUE

\* the operator places capture.txt or 'capture - test.txt'
PlaceCapture(which, content) ==
    /\ runs < MaxRuns
    /\ ~capture[which].exists
    /\ capture' = [capture EXCEPT ![which] = [exists |-> TRUE, content |-> content]]
    /\ UNCHANGED <<logs, index, repo, runs, last, before, keys, once>>

\* interactive_capture.main, mode "capture": the operator accepts capture.txt,
\* or the alternate file when capture.txt is missing, and confirms; existing
\* is the list the scan returned and answer the operator's reply to the reuse
\* prompt; scenario_id, the directory as written and the outcome u of the index
\* update are computed once each
InteractiveCapture(date_str, time_str, test_type, src) ==
    /\ runs < MaxRuns
    /\ capture[src].exists
    /\ src = "alt" => ~capture.main.exists
    /\ \E existing \in list_metadata_only_scenarios(logs[date_str], date_str) :
      \E answer \in 0..Len(existing) :
      \E scenario_id \in {choose_or_generate_scenario_id(date_str, logs[date_str], existing, answer)} :
      \E written \in {put_file(put_file(logs[date_str], log_name(scenario_id), capture[src].content),
                               metadata_name(scenario_id),
                               metadata_content(scenario_id, date_str, time_str, test_type))} :
      \E u \in {update_master_index(index, date_str, time_str, scenario_id, test_type,
                                    written, repo)} :
            /\ logs' = [logs EXCEPT ![date_str] = written]
            /\ capture' = [capture EXCEPT ![src] = NoFile]
            /\ index' = u.index
            /\ runs' = runs + 1
            /\ last' = [op |-> "capture", status |-> IF u.raised THEN "raised" ELSE "ok",
                        exit |-> IF u.raised THEN 1 ELSE 0,
                        date |-> date_str, time |-> time_str, id |-> scenario_id,
                        test |-> test_type, existing |-> existing, answer |-> answer,
                        dir |-> logs[date_str]]
            /\ before' = index
            /\ keys' = (IF once /\ log_name(scenario_id) \notin keys
                         THEN keys \cup {log_name(scenario_id)} ELSE {})
            /\ once' = (once /\ log_name(scenario_id) \notin keys)
            /\ UNCHANGED repo

\* interactive_capture.main, mode "metadata_only": capture.txt is missing, the
\* operator declines the alternate file and the retry, and asks for metadata only
InteractiveMetadataOnly(date_str, time_str, test_type) ==
    /\ runs < MaxRuns
    /\ ~capture.main.exists
    /\ \E existing \in list_metadata_only_scenarios(logs[date_str], date_str) :
      \E answer \in 0..Len(existing) :
      \E scenario_id \in {choose_or_generate_scenario_id(date_str, logs[date_str], existing, answer)} :
      \E written \in {put_file(make_dir(logs[date_str]), metadata_name(scenario_id),
                               metadata_content(scenario_id, date_str, time_str, test_type))} :
      \E u \in {update_master_index(index, date_str, time_str, scenario_id, test_type,
                                    written, repo)} :
            /\ logs' = [logs EXCEPT ![date_str] = written]
            /\ index' = u.index
            /\ runs' = runs + 1
            /\ last' = [op |-> "metadata_only", status |-> IF u.raised THEN "raised" ELSE "ok",
                        exit |-> IF u.raised THEN 1 ELSE 0,
                        date |-> date_str, time |-> time_str, id |-> scenario_id,
                        test |-> test_type, existing |-> existing, answer |-> answer,
                        dir |-> logs[date_str]]
            /\ before' = index
            /\ keys' = (IF once /\ log_name(scenario_id) \notin keys
                         THEN keys \cup {log_name(scenario_id)} ELSE {})
            /\ once' = (once /\ log_name(scenario_id) \notin keys)
            /\ UNCHANGED <<capture, repo>>

\* interactive_capture.main leaving with status 1: sys.exit(1) in
\* ensure_capture_available when capture.txt is missing and the operator asks
\* for neither retry nor metadata, or return 1 at the last confirmation; the
\* inputs collected and the identifier chosen so far are dropped
InteractiveAbort ==
    /\ runs < MaxRuns
    /\ runs' = runs + 1
    /\ last' = [NoRun EXCEPT !.op = "abort", !.status = "failed", !.exit = 1]
    /\ before' = index
    /\ once' = FALSE
    /\ keys' = {}
    /\ UNCHANGED <<logs, capture, index, repo>>

\* script_exit that leaves with status 0 whatever process_capture returned
script_exit_zero(success) == 0

\* the exit status of scripts/process_capture.py: sys.exit(1) unless
\* process_capture returned True
script_exit(success) == IF success THEN 0 ELSE 1

\* scripts/process_capture.py: process_capture and its exit status; an
\* exception of the index update leaves the interpreter with status 1
ScriptedRun(scenario_id, date, time, test_type) ==
    LET logs_dir == logs[date]
        moved    == put_file(logs_dir, scenario_id \o ".log", capture.main.content)
        written  == put_file(moved, scenario_id \o ".metadata.json",
                             metadata_content(scenario_id, date, time, test_type))
        u        == script_update_master_index(index, scenario_id, date, time, test_type)
    IN  /\ runs < MaxRuns
        /\ runs' = runs + 1
        /\ before' = index
        /\ IF ~capture.main.exists
           THEN /\ last' = [NoRun EXCEPT !.op = "scripted", !.status = "failed",
                                         !.exit = script_exit(FALSE)]
                /\ once' = FALSE
                /\ keys' = {}
                /\ UNCHANGED <<logs, capture, index, repo>>
           ELSE /\ logs' = [logs EXCEPT ![date] = written]
                /\ capture' = [capture EXCEPT !.main = NoFile]
                /\ index' = u.index
                /\ last' = [op |-> "scripted", status |-> IF u.raised THEN "raised" ELSE "ok",
                            exit |-> IF u.raised THEN 1 ELSE script_exit(TRUE),
                            date |-> date, time |-> time, id |-> scenario_id, test |-> test_type,
                            existing |-> <<>>, answer |-> 0, dir |-> logs_dir]
                /\ keys' = (IF once /\ (scenario_id \o ".log") \notin keys
                             THEN keys \cup {scenario_id \o ".log"} ELSE {})
                /\ once' = (once /\ (scenario_id \o ".log") \notin keys)
                /\ UNCHANGED repo

\* cli/backfill_index_links.py: main
Backfill ==
    LET b == backfill_main(index, repo)
    IN  /\ runs < MaxRuns
        /\ runs' = runs + 1
        /\ index' = b.index
        /\ last' = [NoRun EXCEPT !.op = "backfill",
                                 !.status = IF b.raised THEN "raised"
                                            ELSE IF b.status = 0 THEN "ok" ELSE "failed",
                                 !.exit = b.status]
        /\ before' = index
        /\ once' = FALSE
        /\ keys' = {}
        /\ UNCHANGED <<logs, capture, repo>>

Next ==
    \/ \E which \in {"main", "alt"}, content \in CaptureContents : PlaceCapture(which, content)
    \/ \E in \in Inputs, src \in {"main", "alt"} : InteractiveCapture(in[1], in[2], in[3], src)
    \/ \E in \in Inputs : InteractiveMetadataOnly(in[1], in[2], in[3])
    \/ InteractiveAbort
    \/ \E a \in ScriptArgs : ScriptedRun(a[1], a[2], a[3], a[4])
    \/ Backfill

Spec == Init /\ [][Next]_vars

----------------------------------------------------------------------------
(* The identity functions on arbitrary directory contents: the directory  *)
(* of one date holds any subset of ScanNames, or is absent                *)

ScanNames ==
    { "SCN_2025_08_12_001.log", "SCN_2025_08_12_002.log", "SCN_2025_08_12_999.log",
      "SCN_2025_08_12_1000.log", "SCN_2025_08_13_005.log", "notes.txt",
      "SCN_2025_08_12_001.metadata.json", "SCN_2025_08_12_003.metadata.json",
      "SCN_2025_08_12_abc.metadata.json", "SCN_2025_08_13_005.metadata.json",
      "SCN_2025_08_12_002.metadata.metadata.json" }

ScanDirs ==
    {NoDir} \cup { [exists |-> TRUE, files |-> [n \in S |-> <<>>]] : S \in SUBSET ScanNames }

InitScan ==
    /\ logs \in { [d \in Dates |-> IF d = dd THEN dir ELSE NoDir] : dd \in Dates, dir \in ScanDirs }
    /\ capture = [main |-> NoFile, alt |-> NoFile]
    /\ index = [exists |-> FALSE, lines |-> <<>>]
    /\ repo = GITHUB_REPO
    /\ runs = 0
    /\ last = NoRun
    /\ before = index
    /\ keys = {}
    /\ once = TRUE

ScanGenerate(for_date) ==
    /\ last' = [NoRun EXCEPT !.op = "generate", !.date = for_date,
                             !.id = generate_scenario_id(for_date, logs[for_date]),
                             !.dir = logs[for_date]]
    /\ UNCHANGED <<logs, capture, index, repo, runs, before, keys, once>>

ScanList(for_date) ==
    \E existing \in list_metadata_only_scenarios(logs[for_date], for_date) :
        /\ last' = [NoRun EXCEPT !.op = "list", !.date = for_date, !.existing = existing,
                                 !.dir = logs[for_date]]
        /\ UNCHANGED <<logs, capture, index, repo, runs, before, keys, once>>

ScanResolve(for_date) ==
    \E existing \in list_metadata_only_scenarios(logs[for_date], for_date) :
      \E answer \in 0..Len(existing) :
        /\ last' = [NoRun EXCEPT !.op = "resolve", !.date = for_date, !.existing = existing,
                                 !.answer = answer,
                                 !.id = choose_or_generate_scenario_id(for_date, logs[for_date],
                                                                       existing, answer),
                                 !.dir = logs[for_date]]
        /\ UNCHANGED <<logs, capture, index, repo, runs, before, keys, once>>

NextScan ==
    \/ \E d \in Dates : ScanGenerate(d)
    \/ \E d \in Dates : ScanList(d)
    \/ \E d \in Dates : ScanResolve(d)

SpecScan == InitScan /\ [][NextScan]_vars

----------------------------------------------------------------------------
(* The link backfill on arbitrary index files: the file is absent, empty,  *)
(* or a header followed by up to MaxRows lines; GITHUB_REPO of             *)
(* cli/config.py is the repository or empty                               *)

\* the header of the schema, and one without the two link columns
IndexHeaders == { fieldnames, SubSeq(fieldnames, 1, 7) }

\* the line a scripted run appends
ScriptedLine == new_entry("SCN_2025_08_12_001", "2025-08-12", "10:00", "regen")

\* the lines an index file holds:
\*   the line of a scripted run;
\*   the line of an interactive metadata-only run made without GITHUB_REPO
\*   (empty links);
\*   a line cut after test_description (no link cells);
\*   a line holding the date only;
\*   the line of a scripted run whose test_type is  full",regen  : the quote
\*   ends the quoted cell early and the line reads as ten cells
IndexLines ==
    { ScriptedLine,
      written_line(fieldnames,
                   index_row("2025-08-12", "SCN_2025_08_12_002", "throttle", NoDir, "",
                             created_at_now("2025-08-12", "09:00"))),
      SubSeq(ScriptedLine, 1, 7),
      <<"2025-08-13">>,
      SubSeq(ScriptedLine, 1, 6) \o <<"full", "regen\"">> \o SubSeq(ScriptedLine, 8, 9) }

\* the sequences of at most n lines
RECURSIVE LinesUpTo(_)
LinesUpTo(n) ==
    IF n = 0 THEN { <<>> }
    ELSE LinesUpTo(n - 1)
           \cup { Append(ls, l) : ls \in { q \in LinesUpTo(n - 1) : Len(q) = n - 1 }, l \in IndexLines }

IndexFiles ==
    { [exists |-> FALSE, lines |-> <<>>], [exists |-> TRUE, lines |-> <<>>] }
      \cup { [exists |-> TRUE, lines |-> <<h>> \o ls] : h \in IndexHeaders, ls \in LinesUpTo(MaxRows) }

InitIndex ==
    /\ logs = [d \in Dates |-> NoDir]
    /\ capture = [main |-> NoFile, alt |-> NoFile]
    /\ index \in IndexFiles
    /\ repo \in { GITHUB_REPO, "" }
    /\ runs = 0
    /\ last = NoRun
    /\ before = index
    /\ keys = {}
    /\ once = TRUE

NextIndex == Backfill

SpecIndex == InitIndex /\ [][NextIndex]_vars

----------------------------------------------------------------------------
(* Observations used by the properties *)

\* the filename column of the rows the reader sees in an index file
column_of(rows, key) == [i \in 1..Len(rows) |-> row_get(rows[i], key)]

filenames_of(index_file) == column_of(loaded_rows(index_file), "filename")

positions_of(column, value) == { i \in 1..Len(column) : column[i] = value }

rows_named(index_file, filename) == positions_of(filenames_of(index_file), filename)

IsUpsertRun == last.op \in {"capture", "metadata_only"}

\* the three-digit names of a date: SCN_<date>_<NNN>.log for NNN in 000..999
SuffixOfArchived(for_date, name) ==
    IntOf(SubSeq(name, Len(name) - Len(".log") - 2, Len(name) - Len(".log")))

ArchivedSuffixes(for_date, logs_dir) ==
    IF ~logs_dir.exists THEN {}
    ELSE { SuffixOfArchived(for_date, n) :
             n \in { m \in DOMAIN logs_dir.files :
                       /\ Len(m) = Len("SCN_") + Len(for_date) + Len("_") + 3 + Len(".log")
                       /\ SubSeq(m, 1, Len("SCN_") + Len(for_date) + 1)
                            = "SCN_" \o date_token(for_date) \o "_"
                       /\ SubSeq(m, Len(m) - 3, Len(m)) = ".log"
                       /\ \A i \in (Len(m) - 6)..(Len(m) - 4) :
                            SubSeq(m, i, i) \in {"0", "1", "2", "3", "4", "5", "6", "7", "8", "9"} } }

\* the digits after the date prefix of an identifier
SuffixText(for_date, scenario_id) ==
    SubSeq(scenario_id, Len("SCN_") + Len(for_date) + Len("_") + 1, Len(scenario_id))

\* the position at which an upsert of filename F into the rows OLD stores its row
upsert_position(old, F) ==
    IF positions_of(column_of(old, "filename"), F) = {} THEN Len(old) + 1
    ELSE CHOOSE h \in positions_of(column_of(old, "filename"), F) :
           \A g \in positions_of(column_of(old, "filename"), F) : h <= g

\* the row the last run wrote into the index: the upserted row, or the line
\* the scripted run appended, read under the schema
written_row ==
    IF last.op = "scripted"
    THEN dict_row(fieldnames, index.lines[Len(index.lines)])
    ELSE loaded_rows(index)[upsert_position(loaded_rows(before), log_name(last.id))]

\* the archived data file of the last run, as it is after the run
archived_content == logs[last.date].files[log_name(last.id)]

IsPending(r) == row_get(r, "file_size") = "0" /\ row_get(r, "record_count") = "0"

HasRealSize(r, content) ==
    /\ row_get(r, "file_size") = Str(file_size(content))
    /\ row_get(r, "record_count") = Str(record_count_of(content))

----------------------------------------------------------------------------
(* Properties *)

\* C1: in every state reached by interactive runs, scripted runs and link
\* backfill from an absent or empty index, no two rows of the index carry the
\* same archived filename.
C1_OneRowPerFilename ==
    \A i, j \in 1..Len(filenames_of(index)) :
        (i # j /\ filenames_of(index)[i] # None)
            => filenames_of(index)[i] # filenames_of(index)[j]

\* C2: when the operator declines the single pending identifier, or picks
\* "create new" among several, the identifier the run works with is the one
\* generate_scenario_id returns and is in use neither by an archived data
\* file nor by a pending metadata record of that date's directory.
C2_DeclinedReuseIsFresh ==
    (IsUpsertRun /\ Len(last.existing) >= 1 /\ last.answer = 0)
        => /\ last.id = generate_scenario_id(last.date, last.dir)
           /\ log_name(last.id) \notin DOMAIN last.dir.files
           /\ metadata_name(last.id) \notin DOMAIN last.dir.files

C4_CaptureNeverOverwrites ==
    last.op = "capture" => log_name(last.id) \notin DOMAIN last.dir.files

\* C5: after a completed upsert for filename F exactly one row of the index
\* carries F, and every row with another filename has the content and the
\* position it had before the call.
C5_UpsertFrame ==
    (IsUpsertRun /\ last.status = "ok")
        => LET F   == log_name(last.id)
               old == loaded_rows(before)
               new == loaded_rows(index)
           IN  /\ Cardinality(rows_named(index, F)) = 1
               /\ \A i \in 1..Len(old) :
                    row_get(old[i], "filename") # F => (i <= Len(new) /\ new[i] = old[i])
               /\ \A i \in 1..Len(new) :
                    row_get(new[i], "filename") # F => (i <= Len(old) /\ new[i] = old[i])

\* C6: when the index holds a row for F with a non-empty creation timestamp
\* T1, a completed upsert of F stores at that position the new row with its
\* created_at replaced by T1: date, size, record count, metadata filename,
\* description and links are the new ones, whatever timestamp the run carries.
C6_CreatedAtPreserved ==
    (IsUpsertRun /\ last.status = "ok" /\ rows_named(before, log_name(last.id)) # {})
        => LET hits == rows_named(before, log_name(last.id))
               i    == CHOOSE h \in hits : \A g \in hits : h <= g
               T1   == row_get(loaded_rows(before)[i], "created_at")
           IN  (T1 # None /\ Len(T1) > 0)
                 => loaded_rows(index)[i]
                      = index_row(last.date, last.id, last.test, logs[last.date], repo, T1)

\* C6 witness: an upsert found a row created at T1, carried another timestamp
\* T2 and another file size, and the stored row has T1 and the new size.
C6_Witness ==
    /\ IsUpsertRun /\ last.status = "ok"
    /\ rows_named(before, log_name(last.id)) # {}
    /\ LET hits == rows_named(before, log_name(last.id))
           i    == CHOOSE h \in hits : \A g \in hits : h <= g
           old  == loaded_rows(before)[i]
           new  == loaded_rows(index)[i]
       IN  /\ row_get(old, "created_at") # created_at_now(last.date, last.time)
           /\ row_get(new, "created_at") = row_get(old, "created_at")
           /\ row_get(old, "file_size") # row_get(new, "file_size")
           /\ row_get(old, "test_description") # row_get(new, "test_description")

\* C7: applying the upsert a second time with the same scenario, date, time
\* and description and the archived file unchanged leaves the index as the
\* first application left it, with one row for that filename.
C7_UpsertIdempotent ==
    (IsUpsertRun /\ last.status = "ok")
        => LET u == update_master_index(index, last.date, last.time, last.id, last.test,
                                        logs[last.date], repo)
           IN  /\ ~u.raised
               /\ u.index = index
               /\ Cardinality(rows_named(index, log_name(last.id))) = 1

\* C8: from an absent or empty index, after index updates for N distinct
\* filenames, one update each and nothing else, the index holds the schema
\* header and exactly N rows.
C8_RowCountAfterDistinctUpserts ==
    (once /\ keys # {})
        => /\ index.exists
           /\ Len(index.lines) >= 1
           /\ index.lines[1] = fieldnames
           /\ Len(loaded_rows(index)) = Cardinality(keys)

\* C9: for every run that writes the index (upsert, scripted append, link
\* backfill) the filenames of the rows before the run are a prefix of the
\* filenames of the rows after it.
C9_RowsOnlyAppended ==
    last.op \in {"capture", "metadata_only", "scripted", "backfill"}
        => /\ Len(filenames_of(before)) <= Len(filenames_of(index))
           /\ \A i \in 1..Len(filenames_of(before)) :
                filenames_of(index)[i] = filenames_of(before)[i]

\* C10: list_metadata_only_scenarios returns exactly the identifiers that
\* carry the date's prefix, have their metadata record <id>.metadata.json in
\* the directory and have no archived data file <id>.log there, each once.
C10_PendingExact ==
    last.op = "list"
        => LET names   == IF last.dir.exists THEN DOMAIN last.dir.files ELSE {}
               ids     == { SubSeq(n, 1, Len(n) - Len(".metadata.json")) :
                              n \in { m \in names : EndsWith(m, ".metadata.json") } }
               pending == { sid \in ids :
                              /\ StartsWith(sid, "SCN_" \o date_token(last.date) \o "_")
                              /\ (sid \o ".log") \notin names }
           IN  /\ Range(last.existing) = pending
               /\ Len(last.existing) = Cardinality(pending)

\* C11, first part: a row upserted while the scenario has no archived data
\* file carries size 0 and record count 0.
C11_PendingRowIsZero ==
    (IsUpsertRun /\ last.status = "ok" /\ ~log_exists(logs[last.date], last.id))
        => IsPending(written_row)

\* C11, second part for one kind of run: the row written by a completed run
\* of kind OP that archived the data file carries that file's size and its
\* number of non-blank lines.
C11_ArchivedRowIsReal(op) ==
    (last.op = op /\ last.status = "ok") => HasRealSize(written_row, archived_content)

\* C11, third part: a row that was PENDING before a run and is no longer
\* PENDING after it was rewritten by an upsert of its own filename, run when
\* the archived file was in place.
C11_PromotedOnlyByUpsert ==
    \A i \in 1..Len(loaded_rows(before)) :
        (/\ i <= Len(loaded_rows(index))
         /\ row_get(loaded_rows(before)[i], "filename") # None
         /\ row_get(loaded_rows(index)[i], "filename") = row_get(loaded_rows(before)[i], "filename")
         /\ IsPending(loaded_rows(before)[i])
         /\ ~IsPending(loaded_rows(index)[i]))
            => /\ IsUpsertRun
               /\ log_name(last.id) = row_get(loaded_rows(before)[i], "filename")
               /\ log_exists(logs[last.date], last.id)

\* C11: a scenario's index row goes ABSENT -> PENDING -> COMPLETE: a row
\* written while no archived file exists has size 0 and record count 0; a row
\* written by a run that archived the data file (interactive capture or
\* scripted run) has the file's size and non-blank line count; and a row
\* leaves PENDING only through an upsert of its filename made after the
\* archived file was written.
C11_RowLifecycle ==
    /\ C11_PendingRowIsZero
    /\ C11_ArchivedRowIsReal("capture")
    /\ C11_ArchivedRowIsReal("scripted")
    /\ C11_PromotedOnlyByUpsert

\* the metadata record of the last run is in the date's directory as written
MetadataWritten ==
    /\ logs[last.date].exists
    /\ metadata_name(last.id) \in DOMAIN logs[last.date].files
    /\ logs[last.date].files[metadata_name(last.id)]
         = metadata_content(last.id, last.date, last.time, last.test)

\* C12, capture-mode order for one kind of run: whether the index update
\* completed or raised, the capture is archived and the metadata record
\* written (both precede the index update), and a completed update wrote a
\* row computed from the file as archived.
C12_CaptureOrder(op) ==
    (last.op = op /\ last.status \in {"ok", "raised"})
        => /\ log_exists(logs[last.date], last.id)
           /\ archived_content \in CaptureContents
           /\ MetadataWritten
           /\ last.status = "ok" => HasRealSize(written_row, archived_content)

\* C12, metadata-only order: whether the index update completed or raised,
\* the metadata record is written and the directory holds no other new entry
\* (no data file is placed); a completed update wrote the scenario's row.
C12_MetadataOnlyOrder ==
    (last.op = "metadata_only" /\ last.status \in {"ok", "raised"})
        => /\ MetadataWritten
           /\ DOMAIN logs[last.date].files = DOMAIN last.dir.files \cup {metadata_name(last.id)}
           /\ \A n \in DOMAIN last.dir.files :
                n # metadata_name(last.id) => logs[last.date].files[n] = last.dir.files[n]
           /\ last.status = "ok"
                => /\ row_get(written_row, "filename") = log_name(last.id)
                   /\ row_get(written_row, "metadata_file") = metadata_name(last.id)

\* C12: in a capture-mode run (interactive or scripted) the data file is
\* placed, then the metadata written, then the index updated, so that the row
\* written is computed from the final archived file; in a metadata-only run
\* the metadata write precedes the index update and no data file is placed.
C12_RunOrder ==
    /\ C12_CaptureOrder("capture")
    /\ C12_CaptureOrder("scripted")
    /\ C12_MetadataOnlyOrder

\* SchemaMismatch: the index file has a first line and the required columns
\* are not all in it
HeaderMismatch(index_file) ==
    /\ index_file.exists
    /\ Len(index_file.lines) > 0
    /\ ~(required_columns \subseteq Range(index_file.lines[1]))

\* C13 for one kind of run: when the index had a mismatching header before
\* the run, the run ended with a non-zero status and the index file is as it
\* was.
C13_AbortsOnMismatch(op) ==
    (last.op = op /\ HeaderMismatch(before)) => (last.exit # 0 /\ index = before)

\* C13: when the index file exists and its header lacks required columns,
\* every run that writes the index (interactive upsert, scripted update, link
\* backfill) aborts and leaves the content of the index file unchanged.
C13_SchemaMismatchAborts ==
    /\ C13_AbortsOnMismatch("capture")
    /\ C13_AbortsOnMismatch("metadata_only")
    /\ C13_AbortsOnMismatch("scripted")
    /\ C13_AbortsOnMismatch("backfill")

\* C14 as stated: a run that looks for capture.txt, does not find it and does
\* not go on in metadata-only mode ends as a failure with a non-zero status
\* and leaves the archive directories, the metadata records and the index as
\* they were.
C14_MissingCaptureFails ==
    [][(/\ runs' = runs + 1
        /\ ~capture.main.exists
        /\ last'.op \in {"capture", "abort", "scripted"})
           => (/\ last'.status = "failed"
               /\ last'.exit # 0
               /\ logs' = logs
               /\ index' = index)]_vars

\* C14 amended: a run that does not find capture.txt and goes on neither
\* with the alternate file 'capture - test.txt' nor in metadata-only mode
\* ends as a failure with a non-zero status and leaves the archive
\* directories, the metadata records and the index as they were.
C14_MissingCaptureFailsUnlessAlternate ==
    [][(/\ runs' = runs + 1
        /\ ~capture.main.exists
        /\ last'.op \in {"abort", "scripted"})
           => (/\ last'.status = "failed"
               /\ last'.exit # 0
               /\ logs' = logs
               /\ index' = index)]_vars

\* C14 witness: a scripted run found no capture.txt and failed with a
\* non-zero status, with rows in the index and files in the archive.
C14_Witness ==
    /\ last.op = "scripted" /\ last.status = "failed" /\ last.exit # 0
    /\ ~capture.main.exists
    /\ Len(loaded_rows(index)) >= 1
    /\ \E d \in Dates : logs[d].exists /\ DOMAIN logs[d].files # {}

\* the canonical identifier pattern SCN_<YYYY>_<MM>_<DD>_<NNN>
IsCanonicalId(sid) ==
    /\ Len(sid) = 18
    /\ SubSeq(sid, 1, 4) = "SCN_"
    /\ AllDigits(SubSeq(sid, 5, 8))   /\ SubSeq(sid, 9, 9) = "_"
    /\ AllDigits(SubSeq(sid, 10, 11)) /\ SubSeq(sid, 12, 12) = "_"
    /\ AllDigits(SubSeq(sid, 13, 14)) /\ SubSeq(sid, 15, 15) = "_"
    /\ AllDigits(SubSeq(sid, 16, 18))

\* a directory entry named after a canonical identifier: the identifier
\* followed by an extension
IsCanonicalEntry(name) ==
    /\ Len(name) > 19
    /\ IsCanonicalId(SubSeq(name, 1, 18))
    /\ SubSeq(name, 19, 19) = "."

\* the directory without its entries that do not match the pattern
canonical_only(logs_dir) ==
    IF ~logs_dir.exists THEN logs_dir
    ELSE [exists |-> TRUE,
          files  |-> [n \in { m \in DOMAIN logs_dir.files : IsCanonicalEntry(m) } |->
                        logs_dir.files[n]]]

\* C15 for generate_scenario_id: the identifier returned is the one returned
\* for the directory without its non-matching entries.
C15_GenerateSkipsMalformed ==
    last.op = "generate"
        => last.id = generate_scenario_id(last.date, canonical_only(last.dir))

\* C15 for list_metadata_only_scenarios: the list returned is one returned
\* for the directory without its non-matching entries.
C15_ListSkipsMalformed ==
    last.op = "list"
        => last.existing \in list_metadata_only_scenarios(canonical_only(last.dir), last.date)

\* C15: entries whose names do not match SCN_<YYYY>_<MM>_<DD>_<NNN> are
\* skipped by both scans: with or without them in the directory,
\* generate_scenario_id and list_metadata_only_scenarios return the same
\* result for every date.
C15_MalformedSkipped ==
    /\ C15_GenerateSkipsMalformed
    /\ C15_ListSkipsMalformed

\* C16: whenever the index file has content, after any sequence of runs,
\* completed or failed, its first line is the fixed schema header and every
\* following line has exactly one cell for each schema column.
C16_ColumnConsistent ==
    (index.exists /\ Len(index.lines) > 0)
        => /\ index.lines[1] = fieldnames
           /\ \A i \in 2..Len(index.lines) : Len(index.lines[i]) = Len(fieldnames)

\* the columns of an index file other than the two link columns
OtherColumns(index_file) == Range(index_file.lines[1]) \ {"log_link", "metadata_link"}

\* the text of a cell; a cell the line does not have reads as the empty cell
\* the writer puts in its place
cell_text(v) == IF v = None THEN "" ELSE v

\* C17, first part: after a link backfill the header, the number and order
\* of the rows and every column other than log_link and metadata_link are
\* as before.
C17_OnlyLinksChange ==
    (last.op = "backfill" /\ before.exists /\ Len(before.lines) > 0)
        => /\ index.exists
           /\ Len(index.lines) > 0
           /\ index.lines[1] = before.lines[1]
           /\ Len(loaded_rows(index)) = Len(loaded_rows(before))
           /\ \A i \in 1..Len(loaded_rows(before)) :
                \A k \in OtherColumns(before) :
                    cell_text(row_get(loaded_rows(index)[i], k))
                      = cell_text(row_get(loaded_rows(before)[i], k))

\* C17, second part: with an empty repository identifier, an absent or
\* empty index, or required columns missing, the index file is not written.
C17_NotWritten ==
    (/\ last.op = "backfill"
     /\ \/ Len(repo) = 0
        \/ ~before.exists
        \/ Len(before.lines) = 0
        \/ HeaderMismatch(before))
        => index = before

\* C17: the link backfill changes only the two link columns of any index,
\* and does not write the index at all when the repository identifier is
\* empty, the index is absent or empty, or required columns are missing.
C17_BackfillFrame ==
    /\ C17_OnlyLinksChange
    /\ C17_NotWritten

====
